---- MODULE Spec2Model ----
(***************************************************************************)
(* Model of the Steam sale tracker plugin (src/main.py): the persisted     *)
(* monitor list (monitor_list.json), the asyncio lock that guards it, the   *)
(* monitor cycle (monitor_prices iterated by run_monitor_prices) and the   *)
(* subscribe / unsubscribe command handlers.                               *)
(*                                                                         *)
(* Representation.                                                         *)
(*  - A price is kept in minor units (the upstream "final"/"initial"       *)
(*    integers); the code stores final / 100 as a float, which is an       *)
(*    injective image of the integer and survives the JSON round trip, so  *)
(*    equality and the sign of a difference are the same in both.          *)
(*  - Python None for last_price / original_price / discount is Null.      *)
(*  - The JSON object is an association list in dict (insertion) order:    *)
(*    a sequence of item records, one per appid.                           *)
(*  - A task is a coroutine of the event loop.  An action is the code a     *)
(*    task runs between two suspension points (await of I/O, a yield that  *)
(*    hands a reply to the host, or a wait for the lock).                  *)
(*  - One command is handled at a time.  A handler reads and writes the    *)
(*    document inside one lock section, so a second handler could only     *)
(*    write between two lock sections of the first or during its           *)
(*    on-demand cycle; the scheduler's cycle writes at both places.        *)
(***************************************************************************)
EXTENDS Integers, Sequences, FiniteSets, TLC

\* ------------------------------------------------------------------ bounds
MaxTriggers == 2      \* commands and interval firings in one behaviour
MaxFollowUps == 1     \* further interval firings, each once all tasks are idle
MaxFaults == 1        \* external damages of the document (SpecStore only)

\* ------------------------------------------------------------- universes
Games == {"g1", "g2"}
Users == {"u1", "u2"}
Groups == {"grp1"}
NoGroup == "none"                    \* event.get_group_id() is falsy
Handlers == {"h1"}                   \* the task of the command being handled
Sched == "sched"                     \* the scheduler's job instance
Tasks == Handlers \cup {Sched}
Free == "free"                       \* the lock has no holder
Null == -1                           \* None

\* ------------------------------------------------------- sequence helpers
Range(s) == {s[i] : i \in 1..Len(s)}

\* list.remove(x): drops the first occurrence of x
RECURSIVE RemoveFirst(_, _)
RemoveFirst(s, x) ==
    IF s = <<>> THEN <<>>
    ELSE IF Head(s) = x THEN Tail(s)
    ELSE <<Head(s)>> \o RemoveFirst(Tail(s), x)

\* position of appid in the document's key order, 0 when absent
RECURSIVE IndexFrom(_, _, _)
IndexFrom(data, appid, i) ==
    IF i > Len(data) THEN 0
    ELSE IF data[i].appid = appid THEN i
    ELSE IndexFrom(data, appid, i + 1)

IndexOf(data, appid) == IndexFrom(data, appid, 1)

Tracked(data) == {data[i].appid : i \in 1..Len(data)}

\* del monitor_list[game_id]
DeleteAt(data, i) == [j \in 1..(Len(data) - 1) |-> IF j < i THEN data[j] ELSE data[j + 1]]

\* ---------------------------------------------------------- price fetcher
\* What the appdetails endpoint answers for one appid.
\*   transport : the request or the decoding raised
\*   success   : data.get("success")
\*   is_free, has_price (price_overview present), final, initial, discount_percent
Resp(transport, success, is_free, has_price, final, initial, disc) ==
    [transport |-> transport, success |-> success, is_free |-> is_free,
     has_price |-> has_price, final |-> final, initial |-> initial,
     discount_percent |-> disc]

Responses ==
    { Resp(TRUE, FALSE, FALSE, FALSE, 0, 0, 0),          \* transport error
      Resp(FALSE, FALSE, FALSE, FALSE, 0, 0, 0),         \* not found
      Resp(FALSE, TRUE, FALSE, FALSE, 0, 0, 0),          \* no price data
      Resp(FALSE, TRUE, TRUE, TRUE, 8000, 10000, 20),    \* free, price fields present
      Resp(FALSE, TRUE, FALSE, TRUE, 8000, 10000, 20) }  \* on sale

NoData == [ok |-> FALSE]

\* a fetcher that reads price_overview before it looks at is_free
get_steam_price_PriceFirst(res) ==
    IF res.transport THEN NoData
    ELSE IF ~res.success THEN NoData
    ELSE IF res.has_price
         THEN [ok |-> TRUE, is_free |-> FALSE, current_price |-> res.final,
               original_price |-> res.initial, discount |-> res.discount_percent,
               currency |-> "CNY"]
    ELSE IF res.is_free
         THEN [ok |-> TRUE, is_free |-> TRUE, current_price |-> 0,
               original_price |-> 0, discount |-> 100, currency |-> "FREE"]
    ELSE NoData

\* get_steam_price: None, or the price dictionary
get_steam_price(res) ==
    IF res.transport THEN NoData
    ELSE IF ~res.success THEN NoData
    ELSE IF res.is_free
         THEN [ok |-> TRUE, is_free |-> TRUE, current_price |-> 0,
               original_price |-> 0, discount |-> 100, currency |-> "FREE"]
    ELSE IF ~res.has_price THEN NoData
    ELSE [ok |-> TRUE, is_free |-> FALSE, current_price |-> res.final,
          original_price |-> res.initial, discount |-> res.discount_percent,
          currency |-> "CNY"]

\* ------------------------------------------------------------ name resolver
MatchThreshold == 70

\* what a user types after the command.  The score of an input against a name
\* is the value of rapidfuzz's fuzz.token_set_ratio, a library function: here
\* it is a table over the names of the model, with an input that scores
\* exactly the threshold against g1 and one that scores one point less.
Near == "g1@70"
Far == "g1@69"
AppNames == Games \cup {Near, Far}

Score(user_input, name) ==
    IF user_input = name THEN 100
    ELSE IF user_input = Near /\ name = "g1" THEN 70
    ELSE IF user_input = Far /\ name = "g1" THEN 69
    ELSE 50

\* process.extractOne: the position of the best-scoring name, the first of
\* them when several score the same; best is the position found so far
RECURSIVE ExtractFrom(_, _, _, _)
ExtractFrom(user_input, target_dict, i, best) ==
    IF i > Len(target_dict) THEN best
    ELSE IF Score(user_input, target_dict[i].name)
               > Score(user_input, target_dict[best].name)
         THEN ExtractFrom(user_input, target_dict, i + 1, i)
    ELSE ExtractFrom(user_input, target_dict, i + 1, best)

NoMatch == [found |-> FALSE, appid |-> "", name |-> ""]

\* a resolver that wants a score above the threshold
get_appid_by_name_Above(user_input, target_dict) ==
    IF target_dict = <<>> THEN NoMatch
    ELSE LET b == ExtractFrom(user_input, target_dict, 1, 1) IN
         IF Score(user_input, target_dict[b].name) > MatchThreshold
         THEN [found |-> TRUE, appid |-> target_dict[b].appid,
               name |-> target_dict[b].name]
         ELSE NoMatch

\* get_appid_by_name: [AppID, matched name], or None.  target_dict is the
\* mapping name -> AppID in dict order, a sequence of [name, appid]
get_appid_by_name(user_input, target_dict) ==
    IF target_dict = <<>> THEN NoMatch
    ELSE LET b == ExtractFrom(user_input, target_dict, 1, 1) IN
         IF Score(user_input, target_dict[b].name) >= MatchThreshold
         THEN [found |-> TRUE, appid |-> target_dict[b].appid,
               name |-> target_dict[b].name]
         ELSE NoMatch

\* the applications upstream has when it serves the catalog
AppList == <<[name |-> "g1", appid |-> "g1"], [name |-> "g2", appid |-> "g2"]>>

\* the outcomes of the catalog request: it raises (transport error, an answer
\* without applist.apps), or it serves a list, which may be empty
CatalogResponses ==
    { [ok |-> FALSE, apps |-> <<>>], [ok |-> TRUE, apps |-> <<>>],
      [ok |-> TRUE, apps |-> AppList] }

\* get_app_list: the mapping kept for the life of the plugin, empty when the
\* request failed
get_app_list(res) == IF res.ok THEN res.apps ELSE <<>>

\* steamrmdremove_command: the names in the document
app_dict_subscribed(data) ==
    [i \in 1..Len(data) |-> [name |-> data[i].name, appid |-> data[i].appid]]

\* ------------------------------------------------------ subscription lists
UserSub(id) == [type |-> "user", id |-> id]
GroupSub(id, members) == [type |-> "group", id |-> id, member_ids |-> members]

\* the item steamremind_command adds for a game not yet in the list
NewItem(game_id) ==
    [name |-> game_id, appid |-> game_id, region |-> "cn", last_price |-> Null,
     original_price |-> Null, discount |-> Null, subscribers |-> <<>>]

\* the entry the subscribe loop stops at (its break), 0 when it runs to the end
RECURSIVE SubscribeScan(_, _, _, _)
SubscribeScan(subs, sender_id, group_id, i) ==
    IF i > Len(subs) THEN 0
    ELSE IF group_id # NoGroup /\ subs[i].type = "group" /\ subs[i].id = group_id THEN i
    ELSE IF group_id = NoGroup /\ subs[i].type = "user" /\ subs[i].id = sender_id THEN i
    ELSE SubscribeScan(subs, sender_id, group_id, i + 1)

\* a subscribe that never looks for an existing entry
SubscribeAppend(subs, sender_id, group_id) ==
    IF group_id # NoGroup
    THEN [subscribers |-> Append(subs, GroupSub(group_id, <<sender_id>>)),
          result |-> "subscribed_group"]
    ELSE [subscribers |-> Append(subs, UserSub(sender_id)),
          result |-> "subscribed_user"]

\* a loop that appends the sender to the group's member_ids without looking
\* whether the sender is a member
SubscribeUpdateNoMemberCheck(subs, sender_id, group_id) ==
    LET i == SubscribeScan(subs, sender_id, group_id, 1) IN
    IF i = 0
    THEN IF group_id # NoGroup
         THEN [subscribers |-> Append(subs, GroupSub(group_id, <<sender_id>>)),
               result |-> "subscribed_group"]
         ELSE [subscribers |-> Append(subs, UserSub(sender_id)),
               result |-> "subscribed_user"]
    ELSE IF group_id # NoGroup
         THEN [subscribers |-> [subs EXCEPT ![i].member_ids = Append(@, sender_id)],
               result |-> "added_to_group"]
         ELSE [subscribers |-> subs, result |-> "already_user"]

\* steamremind_command, the subscriber loop and the new-subscription branch:
\* the new subscriber list and the reply
SubscribeUpdate(subs, sender_id, group_id) ==
    LET i == SubscribeScan(subs, sender_id, group_id, 1) IN
    IF i = 0
    THEN IF group_id # NoGroup
         THEN [subscribers |-> Append(subs, GroupSub(group_id, <<sender_id>>)),
               result |-> "subscribed_group"]
         ELSE [subscribers |-> Append(subs, UserSub(sender_id)),
               result |-> "subscribed_user"]
    ELSE IF group_id # NoGroup
         THEN IF sender_id \in Range(subs[i].member_ids)
              THEN [subscribers |-> subs, result |-> "already_in_group"]
              ELSE [subscribers |->
                        [subs EXCEPT ![i].member_ids = Append(@, sender_id)],
                    result |-> "added_to_group"]
         ELSE [subscribers |-> subs, result |-> "already_user"]

\* steamremind_command inside the lock: the document to write and the reply
SubscribeDoc(data, game_id, sender_id, group_id) ==
    LET withItem == IF game_id \in Tracked(data) THEN data
                    ELSE Append(data, NewItem(game_id))
        i == IndexOf(withItem, game_id)
        upd == SubscribeUpdate(withItem[i].subscribers, sender_id, group_id)
    IN [data |-> [withItem EXCEPT ![i].subscribers = upd.subscribers],
        result |-> upd.result]

\* a loop that drops the whole group entry of the requesting member
RECURSIVE UnsubscribeScanDropsGroup(_, _, _)
UnsubscribeScanDropsGroup(subs, sender_id, group_id) ==
    IF subs = <<>> THEN [updated |-> <<>>, found |-> FALSE]
    ELSE
      LET sub_info == Head(subs)
          rest == UnsubscribeScanDropsGroup(Tail(subs), sender_id, group_id)
      IN
      IF group_id # NoGroup /\ sub_info.type = "group" /\ sub_info.id = group_id
      THEN IF sender_id \in Range(sub_info.member_ids)
           THEN [updated |-> rest.updated, found |-> TRUE]
           ELSE [updated |-> <<sub_info>> \o rest.updated, found |-> rest.found]
      ELSE IF group_id = NoGroup /\ sub_info.type = "user" /\ sub_info.id = sender_id
      THEN [updated |-> rest.updated, found |-> TRUE]
      ELSE [updated |-> <<sub_info>> \o rest.updated, found |-> rest.found]

\* steamrmdremove_command, the subscriber loop: updated_subscribers and
\* found_and_removed
RECURSIVE UnsubscribeScan(_, _, _)
UnsubscribeScan(subs, sender_id, group_id) ==
    IF subs = <<>> THEN [updated |-> <<>>, found |-> FALSE]
    ELSE
      LET sub_info == Head(subs)
          rest == UnsubscribeScan(Tail(subs), sender_id, group_id)
      IN
      IF group_id # NoGroup /\ sub_info.type = "group" /\ sub_info.id = group_id
      THEN LET has == sender_id \in Range(sub_info.member_ids)
               members == IF has THEN RemoveFirst(sub_info.member_ids, sender_id)
                          ELSE sub_info.member_ids
           IN [updated |-> IF members # <<>>
                           THEN <<[sub_info EXCEPT !.member_ids = members]>> \o rest.updated
                           ELSE rest.updated,
               found |-> has \/ rest.found]
      ELSE IF group_id = NoGroup /\ sub_info.type = "user" /\ sub_info.id = sender_id
      THEN [updated |-> rest.updated, found |-> TRUE]
      ELSE [updated |-> <<sub_info>> \o rest.updated, found |-> rest.found]

\* an unsubscribe that keeps an item whose last subscriber left
UnsubscribeDocNoPrune(data, game_id, sender_id, group_id) ==
    LET i == IndexOf(data, game_id)
        scan == UnsubscribeScan(data[i].subscribers, sender_id, group_id)
    IN IF scan.found
       THEN [data |-> [data EXCEPT ![i].subscribers = scan.updated],
             result |-> "removed"]
       ELSE [data |-> data, result |-> "not_subscribed"]

\* steamrmdremove_command inside the lock, game_id in the list: the document
\* to write and the reply
UnsubscribeDoc(data, game_id, sender_id, group_id) ==
    LET i == IndexOf(data, game_id)
        scan == UnsubscribeScan(data[i].subscribers, sender_id, group_id)
    IN IF scan.found
       THEN [data |-> IF scan.updated = <<>> THEN DeleteAt(data, i)
                      ELSE [data EXCEPT ![i].subscribers = scan.updated],
             result |-> "removed"]
       ELSE [data |-> data, result |-> "not_subscribed"]

\* a list loop that shows every game the group is subscribed to
RECURSIVE ListScanWholeGroup(_, _, _, _)
ListScanWholeGroup(subs, sender_id, group_id, i) ==
    IF i > Len(subs) THEN FALSE
    ELSE IF group_id # NoGroup /\ subs[i].type = "group" /\ subs[i].id = group_id
         THEN TRUE
    ELSE IF group_id = NoGroup /\ subs[i].type = "user" /\ subs[i].id = sender_id
         THEN TRUE
    ELSE ListScanWholeGroup(subs, sender_id, group_id, i + 1)

\* steamremind_list_command, the loop over a game's subscribers: whether the
\* game is put into user_or_group_monitored_games
RECURSIVE ListScan(_, _, _, _)
ListScan(subs, sender_id, group_id, i) ==
    IF i > Len(subs) THEN FALSE
    ELSE IF group_id # NoGroup /\ subs[i].type = "group" /\ subs[i].id = group_id
         THEN sender_id \in Range(subs[i].member_ids)
    ELSE IF group_id = NoGroup /\ subs[i].type = "user" /\ subs[i].id = sender_id
         THEN TRUE
    ELSE ListScan(subs, sender_id, group_id, i + 1)

\* user_or_group_monitored_games, in the document's order
ListView(data, sender_id, group_id) ==
    SelectSeq(data, LAMBDA game_info : ListScan(game_info.subscribers, sender_id,
                                                group_id, 1))

\* ------------------------------------------------------- monitor cycle data
\* a message built after the fetched price was copied into game_info
MessageAfterUpdate(game_info, price_data) ==
    LET price_change == price_data.current_price - price_data.current_price IN
    [head |-> IF price_data.is_free THEN [kind |-> "free"]
              ELSE IF price_change > 0 THEN [kind |-> "up", amount |-> price_change]
              ELSE [kind |-> "down", amount |-> 0 - price_change],
     before |-> price_data.current_price,
     current |-> price_data.current_price,
     original |-> price_data.original_price,
     discount |-> price_data.discount,
     link |-> game_info.appid]

\* the first message component (free / price up / price down) and the detail
\* line monitor_prices builds for a changed price
Message(game_info, price_data) ==
    LET price_change == price_data.current_price - game_info.last_price IN
    [head |-> IF price_data.is_free THEN [kind |-> "free"]
              ELSE IF price_change > 0 THEN [kind |-> "up", amount |-> price_change]
              ELSE [kind |-> "down", amount |-> 0 - price_change],
     before |-> game_info.last_price,
     current |-> price_data.current_price,
     original |-> price_data.original_price,
     discount |-> price_data.discount,
     link |-> game_info.appid]

\* the three assignments that copy the fetched price into the cycle's list
ApplyPrice(game_info, price_data) ==
    [game_info EXCEPT !.last_price = price_data.current_price,
                      !.original_price = price_data.original_price,
                      !.discount = price_data.discount]

\* an iteration without the `last_price is None` branch
ClassifyNoBaseline(game_info, price_data) ==
    IF ~price_data.ok THEN "skip"
    ELSE IF price_data.current_price - game_info.last_price # 0 THEN "changed"
    ELSE "same"

\* an iteration that does not compare the prices
ClassifyNoCompare(game_info, price_data) ==
    IF ~price_data.ok THEN "skip"
    ELSE IF game_info.last_price = Null THEN "baseline"
    ELSE "changed"

\* what one iteration of the loop over games_to_check does with a fetch result:
\*   skip     : no price data, continue
\*   baseline : last_price is None, record the price, no notification
\*   changed  : price_change != 0, record the price and notify
\*   same     : price_change == 0, nothing
Classify(game_info, price_data) ==
    IF ~price_data.ok THEN "skip"
    ELSE IF game_info.last_price = Null THEN "baseline"
    ELSE IF price_data.current_price - game_info.last_price # 0 THEN "changed"
    ELSE "same"

\* the tuple monitor_prices yields for one subscriber
Target(subscriber) ==
    IF subscriber.type = "user"
    THEN [target_type |-> "user", target_id |-> subscriber.id, at_members |-> <<>>]
    ELSE [target_type |-> "group", target_id |-> subscriber.id,
          at_members |-> subscriber.member_ids]

\* run_monitor_prices: the At components msg_components holds once the event
\* for `target` has been prepared, given those it held before (ats)
Mentions(ats, target) ==
    IF target.target_type = "group" THEN ats \o target.at_members ELSE ats

\* ------------------------------------------------------------------- state
VARIABLES
    file,      \* monitor_list.json: [state: ok | corrupt | missing, data]
    lock,      \* monitor_list_lock: its holder, or Free
    boot,      \* initialize_data: pending | loaded | crashed
    app_dict_all, \* the catalog get_app_list left: name -> appid
    pc,        \* where each task is suspended
    cmd,       \* the command a handler runs: arguments and reply
    local,     \* a handler's monitor_list between its read and its write
    snap,      \* a cycle's current_monitor_list
    pos,       \* a cycle's position in games_to_check
    cur,       \* the item a cycle processed last and what it did with it
    sent,      \* the events a cycle yielded for that item, as delivered
    skipped,   \* the items whose fetch failed in the cycle
    ideal,     \* the subscribe / unsubscribe commands applied in lock order
    wlock,     \* the last write of the document was made inside the lock
    removed,   \* (game, sender, context) removed by an unsubscribe, not subscribed since
    banned,    \* what `removed` held when a cycle was started
    ntrig, nfault

vars == <<file, lock, boot, pc, cmd, local, snap, pos, cur, sent, skipped,
          ideal, wlock, removed, banned, ntrig, nfault, app_dict_all>>

NoCmd == [op |-> "none", sender_id |-> "", group_id |-> NoGroup, app_name |-> "",
          game_id |-> "", result |-> ""]
NoMsg == [head |-> [kind |-> "none"]]
NoCur == [appid |-> "", outcome |-> "none", last_price |-> Null, pd |-> NoData,
          msg |-> NoMsg]

Doc(data) == [state |-> "ok", data |-> data]

\* documents a previous run may have left behind
PricedItem(game_id, subs) ==
    [NewItem(game_id) EXCEPT !.last_price = 10000, !.original_price = 10000,
                             !.discount = 0, !.subscribers = subs]
InitDocs ==
    { <<>>,
      <<PricedItem("g1", <<UserSub("u1"), GroupSub("grp1", <<"u1", "u2">>)>>)>>,
      <<[NewItem("g2") EXCEPT !.subscribers = <<UserSub("u2")>>],
        PricedItem("g1", <<GroupSub("grp1", <<"u2">>), UserSub("u1")>>)>> }

\* __init__: a document that exists is left as it is; on a first run there is
\* none and __init__ writes {} itself, before the lock is created
Init ==
    /\ \/ file \in {Doc(d) : d \in InitDocs} /\ wlock = TRUE
       \/ file = Doc(<<>>) /\ wlock = FALSE
    /\ lock = Free
    /\ boot = "pending"
    /\ app_dict_all = <<>>
    /\ pc = [t \in Tasks |-> "idle"]
    /\ cmd = [h \in Handlers |-> NoCmd]
    /\ local = [h \in Handlers |-> <<>>]
    /\ snap = [t \in Tasks |-> <<>>]
    /\ pos = [t \in Tasks |-> 0]
    /\ cur = [t \in Tasks |-> NoCur]
    /\ sent = [t \in Tasks |-> <<>>]
    /\ skipped = [t \in Tasks |-> {}]
    /\ ideal = file.data
    /\ removed = {}
    /\ banned = [t \in Tasks |-> {}]
    /\ ntrig = 0
    /\ nfault = 0

\* ---------------------------------------------------------------- startup
\* initialize_data -> load_user_monitors.  The except clause names
\* `FileNotFoundError or json.JSONDecodeError`, which is FileNotFoundError:
\* a missing document is replaced by {} (after the lock is released, with no
\* suspension in between); a corrupt one raises out of the task.
LoadOutcome(doc) ==
    IF doc.state = "ok" THEN [boot |-> "loaded", file |-> doc, reset |-> FALSE]
    ELSE IF doc.state = "missing"
    THEN [boot |-> "loaded", file |-> Doc(<<>>), reset |-> TRUE]
    ELSE [boot |-> "crashed", file |-> doc, reset |-> FALSE]

Startup(res) ==
    /\ boot = "pending"
    /\ lock = Free
    /\ app_dict_all' = get_app_list(res)
    /\ boot' = LoadOutcome(file).boot
    /\ file' = LoadOutcome(file).file
    /\ wlock' = IF LoadOutcome(file).reset THEN FALSE ELSE wlock
    /\ UNCHANGED <<lock, pc, cmd, local, snap, pos, cur, sent, skipped, ideal,
                   ntrig, nfault, removed, banned>>

\* ------------------------------------------------------------ monitor cycle
InCycle(t) == pc[t] \in {"fetch", "write", "send", "sleep"}

Quiescent == \A t \in Tasks : pc[t] = "idle"

\* the interval job: run_monitor_prices starts in the scheduler's task (one
\* instance at a time, APScheduler's default max_instances).  The firings
\* beyond MaxTriggers are those of a later interval, when every earlier cycle
\* and command has finished.
SchedFire ==
    /\ boot # "pending"
    /\ pc[Sched] = "idle"
    /\ \/ ntrig < MaxTriggers
       \/ Quiescent /\ ntrig < MaxTriggers + MaxFollowUps
    /\ pc' = [pc EXCEPT ![Sched] = "snap"]
    /\ ntrig' = ntrig + 1
    /\ banned' = [banned EXCEPT ![Sched] = removed]
    /\ UNCHANGED <<file, lock, boot, app_dict_all, cmd, local, snap, pos, cur, sent, skipped,
                   ideal, nfault, wlock, removed>>

\* monitor_prices, the first lock section.  The except clause names
\* `json.JSONDecodeError or FileNotFoundError`, which is JSONDecodeError: a
\* corrupt document gives the empty list (nothing is written); a missing one
\* raises into run_monitor_prices, which logs and ends the cycle.
SnapshotOutcome(doc) ==
    IF doc.state = "ok" THEN [raised |-> FALSE, list |-> doc.data]
    ELSE IF doc.state = "corrupt" THEN [raised |-> FALSE, list |-> <<>>]
    ELSE [raised |-> TRUE, list |-> <<>>]

CycleSnapshot(t) ==
    /\ pc[t] = "snap"
    /\ lock = Free
    /\ LET o == SnapshotOutcome(file) IN
       /\ snap' = [snap EXCEPT ![t] = o.list]
       /\ pos' = [pos EXCEPT ![t] = IF o.list = <<>> THEN 0 ELSE 1]
       /\ pc' = [pc EXCEPT ![t] = IF o.raised THEN "failed"
                                  ELSE IF o.list = <<>> THEN "done" ELSE "fetch"]
    /\ cur' = [cur EXCEPT ![t] = NoCur]
    /\ sent' = [sent EXCEPT ![t] = <<>>]
    /\ skipped' = [skipped EXCEPT ![t] = {}]
    /\ UNCHANGED <<file, lock, boot, app_dict_all, cmd, local, ideal, ntrig, nfault, wlock,
                   removed, banned>>

\* the event for the k-th subscriber of the item, as run_monitor_prices sends
\* it: msg_components is one list shared by all events of the item, and the
\* At components are appended to it
EventAt(subs, k, msg, before) ==
    LET target == Target(subs[k])
        ats == IF before = <<>> THEN <<>> ELSE before[Len(before)].mentions
    IN [target_type |-> target.target_type, target_id |-> target.target_id,
        at_members |-> target.at_members, msg |-> msg,
        mentions |-> Mentions(ats, target)]

\* a loop that ends the cycle at the first item whose fetch failed
AdvanceStopsAtFailure(t) ==
    IF skipped'[t] # skipped[t]
    THEN /\ pos' = pos
         /\ pc' = [pc EXCEPT ![t] = "failed"]
    ELSE /\ pos' = [pos EXCEPT ![t] = IF pos[t] < Len(snap[t]) THEN pos[t] + 1 ELSE pos[t]]
         /\ pc' = [pc EXCEPT ![t] = IF pos[t] < Len(snap[t]) THEN "fetch" ELSE "done"]

\* the loop moves to the next item of games_to_check, or the cycle is over
Advance(t) ==
    /\ pos' = [pos EXCEPT ![t] = IF pos[t] < Len(snap[t]) THEN pos[t] + 1 ELSE pos[t]]
    /\ pc' = [pc EXCEPT ![t] = IF pos[t] < Len(snap[t]) THEN "fetch" ELSE "done"]

\* after the price of the item was written: a baseline is not notified; a
\* change yields the first subscriber's event, which run_monitor_prices sends
AfterWrite(t, outcome, subs, msg) ==
    IF outcome = "changed" /\ subs # <<>>
    THEN /\ sent' = [sent EXCEPT ![t] = <<EventAt(subs, 1, msg, <<>>)>>]
         /\ pc' = [pc EXCEPT ![t] = "send"]
         /\ pos' = pos
    ELSE /\ sent' = [sent EXCEPT ![t] = <<>>]
         /\ Advance(t)

\* the answer of get_steam_price arrives and the loop body runs up to its next
\* suspension: the next fetch, the wait for the lock, or the first send
Fetch(t, res) ==
    /\ pc[t] = "fetch"
    /\ LET game_info == snap[t][pos[t]]
           price_data == get_steam_price(res)
           outcome == Classify(game_info, price_data)
           msg == IF outcome = "changed" THEN Message(game_info, price_data) ELSE NoMsg
           updated == [snap[t] EXCEPT ![pos[t]] = ApplyPrice(game_info, price_data)]
       IN
       /\ cur' = [cur EXCEPT ![t] = [appid |-> game_info.appid, outcome |-> outcome,
                                     last_price |-> game_info.last_price,
                                     pd |-> price_data, msg |-> msg]]
       /\ skipped' = [skipped EXCEPT ![t] =
                        IF outcome = "skip" THEN @ \cup {game_info.appid} ELSE @]
       /\ IF outcome \in {"skip", "same"}
          THEN /\ Advance(t)
               /\ sent' = [sent EXCEPT ![t] = <<>>]
               /\ UNCHANGED <<file, snap, wlock>>
          ELSE /\ snap' = [snap EXCEPT ![t] = updated]
               /\ IF lock = Free
                  THEN /\ file' = Doc(updated)
                       /\ wlock' = TRUE
                       /\ AfterWrite(t, outcome, game_info.subscribers, msg)
                  ELSE /\ pc' = [pc EXCEPT ![t] = "write"]
                       /\ sent' = [sent EXCEPT ![t] = <<>>]
                       /\ UNCHANGED <<file, pos, wlock>>
    /\ UNCHANGED <<lock, boot, app_dict_all, cmd, local, ideal, ntrig, nfault, removed, banned>>

\* the cycle gets the lock it waited for and dumps its whole list
CycleWrite(t) ==
    /\ pc[t] = "write"
    /\ lock = Free
    /\ UNCHANGED <<lock, boot, app_dict_all, cmd, local, snap, cur, skipped, ideal, ntrig, nfault,
                   removed, banned>>
    /\ file' = Doc(snap[t])
    /\ wlock' = TRUE
    /\ AfterWrite(t, cur[t].outcome, snap[t][pos[t]].subscribers, cur[t].msg)

\* context.send_message returns and the task sleeps for 1 s, or it raises and
\* run_monitor_prices ends the cycle in its except branch
Deliver(t, ok) ==
    /\ pc[t] = "send"
    /\ pc' = [pc EXCEPT ![t] = IF ok THEN "sleep" ELSE "failed"]
    /\ UNCHANGED <<file, lock, boot, app_dict_all, cmd, local, snap, pos, cur, sent, skipped, ideal,
                   ntrig, nfault, wlock, removed, banned>>

\* the sleep is over: the generator is resumed and yields the next
\* subscriber's event, which is handed to send_message, or it goes on with
\* the next item
Wake(t) ==
    /\ pc[t] = "sleep"
    /\ UNCHANGED <<file, lock, boot, app_dict_all, cmd, local, snap, cur, skipped, ideal, ntrig, nfault,
                   wlock, removed, banned>>
    /\ LET subs == snap[t][pos[t]].subscribers
           k == Len(sent[t]) + 1
       IN IF k <= Len(subs)
          THEN /\ sent' = [sent EXCEPT ![t] = Append(@, EventAt(subs, k, cur[t].msg, @))]
               /\ pc' = [pc EXCEPT ![t] = "send"]
               /\ UNCHANGED pos
          ELSE /\ Advance(t)
               /\ UNCHANGED sent

\* run_monitor_prices returns; a handler is then finished
Return(t) ==
    /\ pc[t] \in {"done", "failed"}
    /\ pc' = [pc EXCEPT ![t] = "idle"]
    /\ snap' = [snap EXCEPT ![t] = <<>>]
    /\ pos' = [pos EXCEPT ![t] = 0]
    /\ cur' = [cur EXCEPT ![t] = NoCur]
    /\ sent' = [sent EXCEPT ![t] = <<>>]
    /\ skipped' = [skipped EXCEPT ![t] = {}]
    /\ cmd' = [h \in Handlers |-> IF h = t THEN NoCmd ELSE cmd[h]]
    /\ banned' = [banned EXCEPT ![t] = {}]
    /\ UNCHANGED <<file, lock, boot, app_dict_all, local, ideal, ntrig, nfault, wlock, removed>>

\* --------------------------------------------------------------- commands
\* the (sender, context, typed name) triples the commands of a behaviour come
\* from: private and group requests, both users, a tracked and an untracked
\* game, exact and inexact names
Requests ==
    { <<"u1", NoGroup, "g1">>, <<"u2", "grp1", "g1">>, <<"u1", "grp1", Near>>,
      <<"u2", NoGroup, "g2">>, <<"u2", NoGroup, Far>> }

\* the host starts the handler task for a command
Accepts(h) ==
    /\ pc[h] = "idle"
    /\ ntrig < MaxTriggers

\* the same command on the list of commands applied in lock order
IdealAfter(data, op, app_name, sender_id, group_id) ==
    LET m == IF op = "subscribe" THEN get_appid_by_name(app_name, app_dict_all)
             ELSE get_appid_by_name(app_name, app_dict_subscribed(data))
    IN IF ~m.found THEN data
       ELSE IF op = "subscribe" THEN SubscribeDoc(data, m.appid, sender_id, group_id).data
       ELSE UnsubscribeDoc(data, m.appid, sender_id, group_id).data

\* steamremind_command up to the reply it yields: "not found", or the reply
\* inside the lock.  The name is resolved against app_dict_all, which exists
\* once get_app_list has run.  A document that cannot be read raises out of
\* the handler (the lock is released, nothing is written, no cycle follows).
Subscribe(h, sender_id, group_id, app_name) ==
    /\ boot # "pending"
    /\ Accepts(h)
    /\ ntrig' = ntrig + 1
    /\ LET m == get_appid_by_name(app_name, app_dict_all) IN
       IF ~m.found
       THEN /\ cmd' = [cmd EXCEPT ![h] = [op |-> "subscribe", sender_id |-> sender_id,
                                          group_id |-> group_id, app_name |-> app_name,
                                          game_id |-> "", result |-> "not_found"]]
            /\ pc' = [pc EXCEPT ![h] = "nf_reply"]
            /\ UNCHANGED <<lock, local>>
       ELSE /\ lock = Free
            /\ IF file.state # "ok"
               THEN UNCHANGED <<lock, pc, cmd, local>>
               ELSE LET r == SubscribeDoc(file.data, m.appid, sender_id, group_id) IN
                    /\ lock' = h
                    /\ local' = [local EXCEPT ![h] = r.data]
                    /\ cmd' = [cmd EXCEPT ![h] =
                                 [op |-> "subscribe", sender_id |-> sender_id,
                                  group_id |-> group_id, app_name |-> app_name,
                                  game_id |-> m.appid, result |-> r.result]]
                    /\ pc' = [pc EXCEPT ![h] = "sub_reply"]
    /\ UNCHANGED <<file, boot, app_dict_all, snap, pos, cur, sent, skipped, ideal, nfault, wlock,
                   removed, banned>>

\* the handler is resumed after its reply: it dumps monitor_list, leaves the
\* lock and awaits run_monitor_prices
SubscribeWrite(h) ==
    /\ pc[h] = "sub_reply"
    /\ file' = Doc(local[h])
    /\ wlock' = TRUE
    /\ lock' = Free
    /\ local' = [local EXCEPT ![h] = <<>>]
    /\ pc' = [pc EXCEPT ![h] = "snap"]
    /\ ideal' = IdealAfter(ideal, "subscribe", cmd[h].app_name, cmd[h].sender_id,
                           cmd[h].group_id)
    /\ removed' = removed \ {<<cmd[h].game_id, cmd[h].sender_id, cmd[h].group_id>>}
    /\ banned' = [t \in Tasks |-> IF t = h THEN removed' ELSE banned[t] \cap removed']
    /\ UNCHANGED <<boot, app_dict_all, cmd, snap, pos, cur, sent, skipped, ntrig, nfault>>

\* steamrmdremove_command, the first lock section and the search: the name
\* is resolved against the names in the document.  No match: the "not found"
\* reply.
UnsubscribeSearch(h, sender_id, group_id, app_name) ==
    /\ boot # "pending"
    /\ Accepts(h)
    /\ lock = Free
    /\ ntrig' = ntrig + 1
    /\ IF file.state # "ok"
       THEN UNCHANGED <<pc, cmd, ideal>>
       ELSE LET m == get_appid_by_name(app_name, app_dict_subscribed(file.data)) IN
            /\ cmd' = [cmd EXCEPT ![h] =
                         [op |-> "unsubscribe", sender_id |-> sender_id,
                          group_id |-> group_id, app_name |-> app_name,
                          game_id |-> m.appid,
                          result |-> IF m.found THEN "" ELSE "not_found"]]
            /\ pc' = [pc EXCEPT ![h] = IF m.found THEN "unsub_lock" ELSE "nf_reply"]
            /\ ideal' = IF m.found THEN ideal
                        ELSE IdealAfter(ideal, "unsubscribe", app_name, sender_id,
                                        group_id)
    /\ UNCHANGED <<file, lock, boot, app_dict_all, local, snap, pos, cur, sent, skipped,
                   nfault, wlock, removed, banned>>

\* the second lock section up to the reply it yields inside the lock
Unsubscribe(h) ==
    /\ pc[h] = "unsub_lock"
    /\ lock = Free
    /\ IF file.state # "ok"
       THEN /\ pc' = [pc EXCEPT ![h] = "idle"]
            /\ cmd' = [cmd EXCEPT ![h] = NoCmd]
            /\ UNCHANGED <<lock, local>>
       ELSE LET r == IF cmd[h].game_id \in Tracked(file.data)
                     THEN UnsubscribeDoc(file.data, cmd[h].game_id, cmd[h].sender_id,
                                         cmd[h].group_id)
                     ELSE [data |-> file.data, result |-> "not_tracked"]
            IN /\ lock' = h
               /\ local' = [local EXCEPT ![h] = r.data]
               /\ cmd' = [cmd EXCEPT ![h].result = r.result]
               /\ pc' = [pc EXCEPT ![h] = "unsub_reply"]
    /\ UNCHANGED <<file, boot, app_dict_all, snap, pos, cur, sent, skipped, ideal, ntrig,
                   nfault, wlock, removed, banned>>

\* the handler is resumed after its reply: it returns (game no longer in the
\* list) or dumps monitor_list; either way it leaves the lock and is finished
UnsubscribeWrite(h) ==
    /\ pc[h] = "unsub_reply"
    /\ file' = IF cmd[h].result = "not_tracked" THEN file ELSE Doc(local[h])
    /\ wlock' = IF cmd[h].result = "not_tracked" THEN wlock ELSE TRUE
    /\ lock' = Free
    /\ local' = [local EXCEPT ![h] = <<>>]
    /\ pc' = [pc EXCEPT ![h] = "idle"]
    /\ cmd' = [cmd EXCEPT ![h] = NoCmd]
    /\ ideal' = IdealAfter(ideal, "unsubscribe", cmd[h].app_name, cmd[h].sender_id,
                           cmd[h].group_id)
    /\ removed' = IF cmd[h].result = "removed"
                  THEN removed \cup {<<cmd[h].game_id, cmd[h].sender_id, cmd[h].group_id>>}
                  ELSE removed
    /\ UNCHANGED <<boot, app_dict_all, snap, pos, cur, sent, skipped, ntrig, nfault, banned>>

\* the (sender, context) pairs the list commands come from
ListRequests == { <<"u1", "grp1">>, <<"u2", NoGroup>>, <<"u2", "grp1">> }

\* steamremind_list_command up to its reply: the document is read inside the
\* lock, the games are filtered and the list (or "none subscribed") is
\* yielded.  A document that cannot be read raises out of the handler.
List(h, sender_id, group_id) ==
    /\ boot # "pending"
    /\ Accepts(h)
    /\ lock = Free
    /\ ntrig' = ntrig + 1
    /\ IF file.state # "ok"
       THEN UNCHANGED <<pc, cmd, local>>
       ELSE /\ local' = [local EXCEPT ![h] = ListView(file.data, sender_id, group_id)]
            /\ cmd' = [cmd EXCEPT ![h] =
                         [op |-> "list", sender_id |-> sender_id, group_id |-> group_id,
                          app_name |-> "", game_id |-> "",
                          result |-> IF ListView(file.data, sender_id, group_id) = <<>>
                                     THEN "none_subscribed" ELSE "listed"]]
            /\ pc' = [pc EXCEPT ![h] = "list_reply"]
    /\ UNCHANGED <<file, lock, boot, app_dict_all, snap, pos, cur, sent, skipped, ideal, wlock,
                   nfault, removed, banned>>

\* the handler is resumed after its reply and is finished
ListReturn(h) ==
    /\ pc[h] = "list_reply"
    /\ pc' = [pc EXCEPT ![h] = "idle"]
    /\ cmd' = [cmd EXCEPT ![h] = NoCmd]
    /\ local' = [local EXCEPT ![h] = <<>>]
    /\ UNCHANGED <<file, lock, boot, app_dict_all, snap, pos, cur, sent, skipped, ideal, wlock,
                   ntrig, nfault, removed, banned>>

\* the handler is resumed after its "not found" reply and returns
NotFoundReturn(h) ==
    /\ pc[h] = "nf_reply"
    /\ pc' = [pc EXCEPT ![h] = "idle"]
    /\ cmd' = [cmd EXCEPT ![h] = NoCmd]
    /\ UNCHANGED <<file, lock, boot, app_dict_all, local, snap, pos, cur, sent, skipped, ideal,
                   wlock, ntrig, nfault, removed, banned>>

\* ------------------------------------------------------------- environment
\* the document is deleted or damaged from outside the program
DocFault(kind) ==
    /\ nfault < MaxFaults
    /\ nfault' = nfault + 1
    /\ file' = [state |-> kind, data |-> <<>>]
    /\ UNCHANGED <<lock, boot, app_dict_all, pc, cmd, local, snap, pos, cur, sent, skipped, ideal,
                   ntrig, wlock, removed, banned>>

\* ----------------------------------------------------------- specifications
Next ==
    \/ \E res \in CatalogResponses : Startup(res)
    \/ SchedFire
    \/ \E t \in Tasks : CycleSnapshot(t)
    \/ \E t \in Tasks, res \in Responses : Fetch(t, res)
    \/ \E t \in Tasks : CycleWrite(t)
    \/ \E t \in Tasks, ok \in BOOLEAN : Deliver(t, ok)
    \/ \E t \in Tasks : Wake(t)
    \/ \E t \in Tasks : Return(t)
    \/ \E h \in Handlers, r \in Requests : Subscribe(h, r[1], r[2], r[3])
    \/ \E h \in Handlers : SubscribeWrite(h)
    \/ \E h \in Handlers, r \in Requests : UnsubscribeSearch(h, r[1], r[2], r[3])
    \/ \E h \in Handlers : Unsubscribe(h)
    \/ \E h \in Handlers : UnsubscribeWrite(h)
    \/ \E h \in Handlers : NotFoundReturn(h)
    \/ \E h \in Handlers, r \in ListRequests : List(h, r[1], r[2])
    \/ \E h \in Handlers : ListReturn(h)

Spec == Init /\ [][Next]_vars

NextStore == Next \/ \E kind \in {"missing", "corrupt"} : DocFault(kind)

SpecStore == Init /\ [][NextStore]_vars

\* the event loop resumes every task that can run: a fetch, a delivery and a
\* reply handed to the host come back, and a task waiting for the lock gets
\* it once it is free.  The arrival of a command and the firing of the
\* interval job are not forced.
Fairness ==
    /\ WF_vars(\E res \in CatalogResponses : Startup(res))
    /\ \A t \in Tasks :
          /\ WF_vars(CycleSnapshot(t))
          /\ WF_vars(\E res \in Responses : Fetch(t, res))
          /\ WF_vars(CycleWrite(t))
          /\ WF_vars(\E ok \in BOOLEAN : Deliver(t, ok))
          /\ WF_vars(Wake(t))
          /\ WF_vars(Return(t))
    /\ \A h \in Handlers :
          /\ WF_vars(SubscribeWrite(h))
          /\ WF_vars(Unsubscribe(h))
          /\ WF_vars(UnsubscribeWrite(h))
          /\ WF_vars(NotFoundReturn(h))
          /\ WF_vars(ListReturn(h))

SpecLive == Init /\ [][Next]_vars /\ Fairness

\* ------------------------------------------------------------------ claims
\* views used by the claims
ItemOf(data, appid) == data[IndexOf(data, appid)]

SubscribersOf(data) == [a \in Tracked(data) |-> ItemOf(data, a).subscribers]

PriceFieldsAre(item, price_data) ==
    /\ item.last_price = price_data.current_price
    /\ item.original_price = price_data.original_price
    /\ item.discount = price_data.discount

\* task t receives a fetch answer in this step
FetchStep(t) == pc[t] = "fetch" /\ (pc'[t] # "fetch" \/ pos'[t] # pos[t])

\* task t dumps its list for the item it is processing in this step
PriceWriteStep(t) ==
    \/ pc[t] = "write" /\ pc'[t] # "write"
    \/ FetchStep(t) /\ cur'[t].outcome \in {"baseline", "changed"} /\ pc'[t] # "write"

\* the upstream answer gives no price (transport error, not found, no price data)
FetchFailed(c) == ~c.pd.ok

\* the actor is subscribed to the game in the context
IsSubscribed(data, game_id, sender_id, group_id) ==
    /\ game_id \in Tracked(data)
    /\ \E j \in 1..Len(ItemOf(data, game_id).subscribers) :
          LET e == ItemOf(data, game_id).subscribers[j] IN
          IF group_id = NoGroup
          THEN e.type = "user" /\ e.id = sender_id
          ELSE e.type = "group" /\ e.id = group_id /\ sender_id \in Range(e.member_ids)

\* C1: once every command and every cycle has finished, the subscribers in
\* the document are those the subscribe and unsubscribe commands alone leave,
\* applied in the order of their lock sections.
C1_NoLostUpdates ==
    (Quiescent /\ file.state = "ok") => SubscribersOf(file.data) = SubscribersOf(ideal)

\* C2: at most one monitor cycle is between its snapshot and its completion.
C2_OneCycleAtATime == Cardinality({t \in Tasks : InCycle(t)}) <= 1

\* C3: for an item with snapshot price p and fetched price q # p, the events
\* yielded are one per subscriber, in the subscribers' order, none skipped and
\* none twice, each with the prices p and q and the change q - p; and the write
\* of the cycle leaves the fetched price, original price and discount in the
\* document.  When the cycle has left the item, however it left it, every
\* subscriber has had an event.
C3_EventsOf(t) ==
    LET subs == ItemOf(snap[t], cur[t].appid).subscribers
        p == cur[t].last_price
        q == cur[t].pd.current_price
    IN /\ Len(sent[t]) <= Len(subs)
       /\ pc[t] \in {"send", "sleep"} => Len(sent[t]) >= 1
       /\ pc[t] \in {"fetch", "done", "failed"} => Len(sent[t]) = Len(subs)
       /\ \A k \in 1..Len(sent[t]) :
             /\ sent[t][k].target_type = subs[k].type
             /\ sent[t][k].target_id = subs[k].id
             /\ sent[t][k].msg.before = p
             /\ sent[t][k].msg.current = q
             /\ sent[t][k].msg.current - sent[t][k].msg.before = q - p
             /\ sent[t][k].msg.head.kind = "up" =>
                   q > p /\ sent[t][k].msg.head.amount = q - p
             /\ sent[t][k].msg.head.kind = "down" =>
                   q < p /\ sent[t][k].msg.head.amount = p - q
             /\ sent[t][k].msg.head.kind \in {"up", "down", "free"}

C3_DeltaCorrectness ==
    /\ [](\A t \in Tasks :
            (cur[t].pd.ok /\ cur[t].last_price # Null
                /\ cur[t].pd.current_price # cur[t].last_price /\ pc[t] # "write")
            => C3_EventsOf(t))
    /\ [][\A t \in Tasks :
            (PriceWriteStep(t) /\ cur'[t].last_price # Null)
            => /\ file'.state = "ok"
               /\ cur'[t].appid \in Tracked(file'.data)
               /\ PriceFieldsAre(ItemOf(file'.data, cur'[t].appid), cur'[t].pd)]_vars

\* a cycle has yielded and delivered one event to each of two subscribers of
\* an item whose price changed
C3_Witness ==
    \E t \in Tasks :
        /\ pc[t] \in {"fetch", "done"}
        /\ cur[t].outcome = "changed"
        /\ Len(sent[t]) = 2
        /\ sent[t][1].msg.head.kind = "down"

\* C4: an item whose snapshot last_price is None and whose fetch succeeds gets
\* no event in that cycle, whatever the price, and the cycle's write leaves
\* the fetched price fields in the document.
C4_FirstObservation ==
    /\ [](\A t \in Tasks :
            (cur[t].pd.ok /\ cur[t].last_price = Null)
            => /\ sent[t] = <<>>
               /\ pc[t] \notin {"send", "sleep"}
               /\ PriceFieldsAre(ItemOf(snap[t], cur[t].appid), cur[t].pd))
    /\ [][\A t \in Tasks :
            (PriceWriteStep(t) /\ cur'[t].last_price = Null)
            => /\ file'.state = "ok"
               /\ cur'[t].appid \in Tracked(file'.data)
               /\ PriceFieldsAre(ItemOf(file'.data, cur'[t].appid), cur'[t].pd)
               /\ sent'[t] = <<>>]_vars

\* a cycle has written the baseline of an item that turned out to be free
C4_Witness ==
    \E t \in Tasks :
        /\ cur[t].outcome = "baseline"
        /\ cur[t].pd.is_free
        /\ pc[t] \in {"fetch", "done"}
        /\ file.state = "ok"
        /\ cur[t].appid \in Tracked(file.data)
        /\ ItemOf(file.data, cur[t].appid).last_price = 0

\* C5: a fetch that returns the snapshot's last_price yields no event, leaves
\* the document as it is and leaves no write pending.
C5_ZeroDelta ==
    [][\A t \in Tasks :
         (FetchStep(t) /\ cur'[t].pd.ok
             /\ cur'[t].pd.current_price = snap[t][pos[t]].last_price)
         => /\ file' = file
            /\ snap'[t] = snap[t]
            /\ sent'[t] = <<>>
            /\ pc'[t] \notin {"write", "send", "sleep"}]_vars

\* a cycle has fetched an unchanged price
C5_Witness ==
    \E t \in Tasks :
        /\ cur[t].pd.ok
        /\ cur[t].last_price # Null
        /\ cur[t].pd.current_price = cur[t].last_price
        /\ cur[t].outcome = "same"

Already == {"already_user", "already_in_group"}

\* C6: a subscribe by an actor who is subscribed to the game in that context
\* gets the "already subscribed" reply and writes the document back as it
\* was: no subscriber list and no member_ids changes.
C6_SubscribeIdempotent ==
    /\ [](\A h \in Handlers :
            pc[h] = "sub_reply" =>
               LET was == IsSubscribed(file.data, cmd[h].game_id, cmd[h].sender_id,
                                       cmd[h].group_id)
               IN /\ was => local[h] = file.data /\ cmd[h].result \in Already
                  /\ ~was => cmd[h].result \notin Already)
    /\ [][\A h \in Handlers :
            (pc[h] = "sub_reply" /\ pc'[h] # "sub_reply" /\ cmd[h].result \in Already)
            => file' = file]_vars

\* a member of a subscribed group subscribes again in that group
C6_Witness ==
    \E h \in Handlers :
        /\ pc[h] = "sub_reply"
        /\ cmd[h].result = "already_in_group"
        /\ IsSubscribed(file.data, cmd[h].game_id, cmd[h].sender_id, cmd[h].group_id)

\* C7: every item of the document has a subscriber, and every group entry
\* has a member.
C7_NoOrphans ==
    file.state = "ok" =>
        \A i \in 1..Len(file.data) :
            /\ file.data[i].subscribers # <<>>
            /\ \A j \in 1..Len(file.data[i].subscribers) :
                  file.data[i].subscribers[j].type = "group"
                     => file.data[i].subscribers[j].member_ids # <<>>

\* the last subscriber of an item unsubscribes: the item is about to go
C7_Witness ==
    \E h \in Handlers :
        /\ pc[h] = "unsub_reply"
        /\ cmd[h].result = "removed"
        /\ cmd[h].game_id \in Tracked(file.data)
        /\ cmd[h].game_id \notin Tracked(local[h])
        /\ Len(local[h]) = Len(file.data) - 1

\* the subscriber list an unsubscribe is to leave
ExpectedSubscribers(subs, sender_id, group_id) ==
    LET Strip(e) ==
            IF e.type = "group" /\ e.id = group_id
            THEN [e EXCEPT !.member_ids = SelectSeq(@, LAMBDA m : m # sender_id)]
            ELSE e
        Kept(e) ==
            IF group_id = NoGroup THEN ~(e.type = "user" /\ e.id = sender_id)
            ELSE e.type = "group" => e.member_ids # <<>>
    IN IF group_id = NoGroup THEN SelectSeq(subs, Kept)
       ELSE SelectSeq([i \in 1..Len(subs) |-> Strip(subs[i])], Kept)

\* the document an unsubscribe of a subscribed actor is to leave
ExpectedDoc(data, game_id, sender_id, group_id) ==
    LET left == ExpectedSubscribers(ItemOf(data, game_id).subscribers, sender_id,
                                    group_id)
    IN IF left = <<>> THEN SelectSeq(data, LAMBDA item : item.appid # game_id)
       ELSE [i \in 1..Len(data) |->
               IF data[i].appid = game_id THEN [data[i] EXCEPT !.subscribers = left]
               ELSE data[i]]

\* C8: an unsubscribe removes the requesting member from the group's
\* member_ids (the group entry goes when no member is left) or the individual's
\* entry; the item goes exactly when no subscriber is left; every other entry,
\* member and item stays; an actor who was not subscribed gets "not subscribed"
\* and the document stays as it was.
C8_UnsubscribeEffect ==
    /\ [](\A h \in Handlers :
            pc[h] = "unsub_reply" =>
               LET g == cmd[h].game_id
                   u == cmd[h].sender_id
                   c == cmd[h].group_id
               IN IF IsSubscribed(file.data, g, u, c)
                  THEN /\ cmd[h].result = "removed"
                       /\ local[h] = ExpectedDoc(file.data, g, u, c)
                       /\ ~IsSubscribed(local[h], g, u, c)
                  ELSE /\ cmd[h].result \in {"not_subscribed", "not_tracked"}
                       /\ cmd[h].result = "not_tracked" <=> g \notin Tracked(file.data)
                       /\ local[h] = file.data)
    /\ [][\A h \in Handlers :
            (pc[h] = "unsub_reply" /\ pc'[h] # "unsub_reply")
            => file' = Doc(local[h])]_vars

\* the last member of a group unsubscribes from an item that has another
\* subscriber: the group entry goes, the item stays
C8_Witness ==
    \E h \in Handlers :
        /\ pc[h] = "unsub_reply"
        /\ cmd[h].result = "removed"
        /\ cmd[h].group_id # NoGroup
        /\ cmd[h].game_id \in Tracked(local[h])
        /\ Len(ItemOf(local[h], cmd[h].game_id).subscribers)
              = Len(ItemOf(file.data, cmd[h].game_id).subscribers) - 1

\* C9: a failed fetch changes neither the document nor the cycle's list,
\* yields no event and does not end the cycle: the next item is fetched, a
\* cycle that completes has gone through its whole snapshot, and an item
\* fetched after the failure still gets its write and its first event.
C9_FetchFailureIsolation ==
    /\ [](\A t \in Tasks : pc[t] = "done" => pos[t] = Len(snap[t]))
    /\ [][\A t \in Tasks :
            (FetchStep(t) /\ FetchFailed(cur'[t]))
            => /\ file' = file
               /\ snap'[t] = snap[t]
               /\ sent'[t] = <<>>
               /\ IF pos[t] < Len(snap[t])
                  THEN pc'[t] = "fetch" /\ pos'[t] = pos[t] + 1
                  ELSE pc'[t] = "done"]_vars
    /\ [][\A t \in Tasks :
            (FetchStep(t) /\ skipped[t] # {} /\ cur'[t].pd.ok
                /\ cur'[t].pd.current_price # snap[t][pos[t]].last_price)
            => \/ pc'[t] = "write"
               \/ /\ PriceFieldsAre(ItemOf(file'.data, cur'[t].appid), cur'[t].pd)
                  /\ (snap[t][pos[t]].last_price # Null
                         /\ snap[t][pos[t]].subscribers # <<>>)
                     => pc'[t] = "send" /\ Len(sent'[t]) = 1]_vars

\* in one cycle the fetch of an item failed and a later item's changed price
\* is being notified
C9_Witness ==
    \E t \in Tasks :
        /\ skipped[t] # {}
        /\ cur[t].appid \notin skipped[t]
        /\ cur[t].outcome = "changed"
        /\ pc[t] = "send"

\* C10: a load (at startup, at the start of a cycle) that finds the document
\* missing or corrupt goes on with the empty list and leaves an empty valid
\* document behind.
C10_SelfHealing ==
    [][/\ (boot = "pending" /\ boot' # "pending" /\ file.state # "ok")
          => boot' = "loaded" /\ file' = Doc(<<>>)
       /\ \A t \in Tasks :
            (pc[t] = "snap" /\ pc'[t] # "snap" /\ file.state # "ok")
            => pc'[t] = "done" /\ snap'[t] = <<>> /\ file' = Doc(<<>>)]_vars

\* C11: every write of the document is made by a task that holds the lock,
\* the reset of a document that could not be loaded included; and while a
\* task is inside its lock section no other task changes the document.
C11_LockedAccess ==
    /\ [][(file' # file /\ nfault' = nfault) => wlock']_vars
    /\ [][(lock # Free /\ file' # file /\ nfault' = nfault)
            => (pc'[lock] # pc[lock] /\ lock' = Free)]_vars

\* C12: a handler that has finished its subscribe, and a handler that has
\* finished its unsubscribe, goes on to run a monitor cycle.
C12_OnDemandCycle ==
    [][\A h \in Handlers :
         /\ (pc[h] = "sub_reply" /\ pc'[h] # "sub_reply") => pc'[h] = "snap"
         /\ (pc[h] = "unsub_reply" /\ pc'[h] # "unsub_reply") => pc'[h] = "snap"]_vars

\* no two entries of the list have the same (type, id), and no group entry
\* lists a member twice
UniqueSubscribers(subs) ==
    /\ \A i, j \in 1..Len(subs) :
          (i # j) => (subs[i].type # subs[j].type \/ subs[i].id # subs[j].id)
    /\ \A i \in 1..Len(subs) :
          subs[i].type = "group" =>
             \A m, n \in 1..Len(subs[i].member_ids) :
                (m # n) => subs[i].member_ids[m] # subs[i].member_ids[n]

\* the subscriber list of the game in a document, empty when it is not tracked
SubscribersIn(data, game_id) ==
    IF game_id \in Tracked(data) THEN ItemOf(data, game_id).subscribers ELSE <<>>

\* C13: every item of the document has at most one subscriber entry per
\* (type, id) and no group entry lists a member twice; a subscribe by a new
\* member of a subscribed group appends the member to that group's entry and
\* adds no entry; a repeated individual subscribe changes nothing and is
\* answered "already subscribed".
C13_SubscriberUniqueness ==
    /\ [](file.state = "ok" =>
             \A i \in 1..Len(file.data) : UniqueSubscribers(file.data[i].subscribers))
    /\ [](\A h \in Handlers :
            pc[h] = "sub_reply" =>
               LET before == SubscribersIn(file.data, cmd[h].game_id)
                   after == SubscribersIn(local[h], cmd[h].game_id)
                   u == cmd[h].sender_id
                   c == cmd[h].group_id
               IN /\ UniqueSubscribers(after)
                  /\ \A i \in 1..Len(before) :
                        (c # NoGroup /\ before[i].type = "group" /\ before[i].id = c
                            /\ u \notin Range(before[i].member_ids))
                        => /\ cmd[h].result = "added_to_group"
                           /\ Len(after) = Len(before)
                           /\ after[i].member_ids = Append(before[i].member_ids, u)
                           /\ \A j \in 1..Len(before) : (j # i) => after[j] = before[j]
                  /\ \A i \in 1..Len(before) :
                        (c = NoGroup /\ before[i].type = "user" /\ before[i].id = u)
                        => cmd[h].result = "already_user" /\ local[h] = file.data)

\* a second member of a subscribed group subscribes in that group
C13_Witness ==
    \E h \in Handlers :
        /\ pc[h] = "sub_reply"
        /\ cmd[h].result = "added_to_group"
        /\ Len(SubscribersIn(local[h], cmd[h].game_id))
              = Len(SubscribersIn(file.data, cmd[h].game_id))
        /\ \E i \in 1..Len(SubscribersIn(local[h], cmd[h].game_id)) :
              /\ SubscribersIn(local[h], cmd[h].game_id)[i].type = "group"
              /\ Len(SubscribersIn(local[h], cmd[h].game_id)[i].member_ids) = 2

\* C14: an item whose last_price in the document is not None keeps a
\* last_price that is not None in every later document in which it is still
\* tracked.
C14_LastPriceStaysSet ==
    [][(file.state = "ok" /\ file'.state = "ok") =>
          \A a \in Tracked(file.data) \cap Tracked(file'.data) :
             ItemOf(file.data, a).last_price # Null
                => ItemOf(file'.data, a).last_price # Null]_vars

\* the upstream answers that report the game as free, with and without price
\* fields
FreeResponses ==
    { Resp(FALSE, TRUE, TRUE, hp, f, i, d) :
        hp \in BOOLEAN, f \in {0, 8000}, i \in {0, 10000}, d \in {0, 20} }

FreeSnapshot ==
    [ok |-> TRUE, is_free |-> TRUE, current_price |-> 0, original_price |-> 0,
     discount |-> 100, currency |-> "FREE"]

\* C15: an upstream answer that reports the game as free gives the snapshot
\* {is_free, 0, 0, 100, FREE} whatever its price fields are; for an item whose
\* last_price is above 0 the cycle then writes last_price 0 and yields, in the
\* subscribers' order, one event per subscriber with the "free" message:
\* when the cycle has left the item, however it left it, every subscriber has
\* had one.
C15_FreeTransition ==
    /\ [](\A res \in FreeResponses \cup Responses :
             (~res.transport /\ res.success /\ res.is_free)
             => get_steam_price(res) = FreeSnapshot)
    /\ [](\A t \in Tasks :
            (cur[t].pd.ok /\ cur[t].pd.is_free /\ cur[t].last_price > 0)
            => /\ cur[t].pd = FreeSnapshot
               /\ cur[t].outcome = "changed"
               /\ cur[t].msg.head.kind = "free"
               /\ pc[t] # "write" =>
                     LET subs == ItemOf(snap[t], cur[t].appid).subscribers IN
                     /\ Len(sent[t]) <= Len(subs)
                     /\ pc[t] \in {"fetch", "done", "failed"}
                           => Len(sent[t]) = Len(subs)
                     /\ \A k \in 1..Len(sent[t]) :
                           /\ sent[t][k].target_type = subs[k].type
                           /\ sent[t][k].target_id = subs[k].id
                           /\ sent[t][k].msg.head.kind = "free"
                           /\ sent[t][k].msg.current = 0)
    /\ [][\A t \in Tasks :
            (PriceWriteStep(t) /\ cur'[t].pd.is_free /\ cur'[t].last_price > 0)
            => /\ file'.state = "ok"
               /\ cur'[t].appid \in Tracked(file'.data)
               /\ ItemOf(file'.data, cur'[t].appid).last_price = 0]_vars

\* a priced item turned out to be free: the cycle wrote last_price 0 and both
\* subscribers got the "free" message
C15_Witness ==
    \E t \in Tasks :
        /\ cur[t].pd.ok
        /\ cur[t].pd.is_free
        /\ cur[t].last_price > 0
        /\ pc[t] \in {"fetch", "done"}
        /\ Len(sent[t]) = 2
        /\ sent[t][2].msg.head.kind = "free"
        /\ file.state = "ok"
        /\ cur[t].appid \in Tracked(file.data)
        /\ ItemOf(file.data, cur[t].appid).last_price = 0

\* the candidate mappings the resolver is checked on: every mapping over the
\* catalog's entries, in either order, the empty one included
CandidateMaps ==
    {<<>>} \cup {<<e>> : e \in Range(AppList)}
           \cup {p \in Range(AppList) \X Range(AppList) : p[1] # p[2]}

BestScore(user_input, target_dict) ==
    CHOOSE v \in {Score(user_input, target_dict[i].name) : i \in 1..Len(target_dict)} :
        \A i \in 1..Len(target_dict) : Score(user_input, target_dict[i].name) <= v

\* C16: the resolver returns a candidate exactly when the mapping is not
\* empty and the best score is at least 70, and then it returns the id and
\* the name of a best-scoring candidate: 69 gives no match, 70 gives the
\* candidate.  The handlers go on with the game the resolver returned and
\* reply "not found" when it returned none; the unsubscribe handler resolves
\* against the games of the document it has just read.  The resolver depends
\* on its two arguments only, so its table is evaluated in the states before
\* startup; the handlers' use of it is checked in every state.
C16_ResolverThreshold ==
    /\ [](boot = "pending" =>
          \A q \in AppNames, d \in CandidateMaps :
             LET r == get_appid_by_name(q, d) IN
             /\ r.found <=> (d # <<>> /\ BestScore(q, d) >= 70)
             /\ r.found =>
                   \E i \in 1..Len(d) :
                      /\ r.appid = d[i].appid
                      /\ r.name = d[i].name
                      /\ Score(q, d[i].name) = BestScore(q, d))
    /\ [](\A h \in Handlers :
            /\ pc[h] \in {"sub_reply", "unsub_lock"} => Score(cmd[h].app_name, cmd[h].game_id) >= 70
            /\ (pc[h] = "nf_reply" /\ cmd[h].op = "subscribe")
               => \/ app_dict_all = <<>>
                  \/ BestScore(cmd[h].app_name, app_dict_all) < 70)
    /\ [][\A h \in Handlers :
             (pc[h] = "idle" /\ pc'[h] = "nf_reply" /\ cmd'[h].op = "unsubscribe")
                => \A i \in 1..Len(file.data) :
                      Score(cmd'[h].app_name, file.data[i].name) < 70]_vars

\* a name that scores exactly 70 against g1 was resolved to g1
C16_Witness ==
    \E h \in Handlers :
        /\ pc[h] = "sub_reply"
        /\ Score(cmd[h].app_name, cmd[h].game_id) = 70
        /\ BestScore(cmd[h].app_name, app_dict_all) = 70
        /\ cmd[h].game_id = "g1"

\* C17: the list command leaves the document as it is and replies with
\* exactly the items of the document, in its order, to which the requester is
\* subscribed in the context of the request: in private chat the items with
\* the requester's individual entry, in a group the items whose entry of
\* that group lists the requester as a member.
C17_ListReadOnlyView ==
    [][\A h \in Handlers :
         /\ (pc[h] # "list_reply" /\ pc'[h] = "list_reply")
            => /\ file' = file
               /\ local'[h] = SelectSeq(file.data,
                                 LAMBDA item : IsSubscribed(file.data, item.appid,
                                                            cmd'[h].sender_id,
                                                            cmd'[h].group_id))
               /\ cmd'[h].result = "none_subscribed" <=> local'[h] = <<>>
         /\ (pc[h] = "list_reply" /\ pc'[h] # "list_reply") => file' = file]_vars

\* in private chat the requester was shown the one game with the requester's
\* individual entry, and not the game the requester follows in a group only
C17_Witness ==
    \E h \in Handlers :
        /\ pc[h] = "list_reply"
        /\ cmd[h].group_id = NoGroup
        /\ Len(local[h]) = 1
        /\ file.state = "ok"
        /\ Len(file.data) = 2
        /\ \E i \in 1..2 :
              /\ file.data[i].appid # local[h][1].appid
              /\ \E j \in 1..Len(file.data[i].subscribers) :
                    /\ file.data[i].subscribers[j].type = "group"
                    /\ cmd[h].sender_id \in Range(file.data[i].subscribers[j].member_ids)

\* the events of the item a cycle processed last whose send has returned
Delivered(t) ==
    IF pc[t] \in {"send", "failed"} /\ sent[t] # <<>>
    THEN SubSeq(sent[t], 1, Len(sent[t]) - 1)
    ELSE sent[t]

\* C18: no subscriber is delivered two notifications for the same change of
\* an item's price from p to q by two cycles; and a cycle's write leaves the
\* last_price of every other item as the document had it, so that a price q
\* some cycle has written is not set back to the older p.
C18_NoDuplicateNotification ==
    /\ [](\A t1, t2 \in Tasks :
            (t1 # t2 /\ cur[t1].outcome = "changed" /\ cur[t2].outcome = "changed"
                /\ cur[t1].appid = cur[t2].appid
                /\ cur[t1].last_price = cur[t2].last_price
                /\ cur[t1].pd.current_price = cur[t2].pd.current_price)
            => \A k1 \in 1..Len(Delivered(t1)), k2 \in 1..Len(Delivered(t2)) :
                  \/ Delivered(t1)[k1].target_type # Delivered(t2)[k2].target_type
                  \/ Delivered(t1)[k1].target_id # Delivered(t2)[k2].target_id)
    /\ [][\A t \in Tasks :
            (PriceWriteStep(t) /\ file.state = "ok")
            => \A a \in (Tracked(file.data) \cap Tracked(file'.data)) \ {cur'[t].appid} :
                  ItemOf(file'.data, a).last_price = ItemOf(file.data, a).last_price]_vars

\* C19: an actor whose unsubscribe from a game removed the subscription, and
\* who has not subscribed to it in that context since, is delivered no
\* notification for the game by a cycle started after the unsubscribe: no
\* private message in the individual case, no mention in the group's message
\* in the group case.
C19_NoNotificationAfterUnsubscribe ==
    \A t \in Tasks :
       \A r \in banned[t] \cap removed :
          cur[t].appid = r[1] =>
             \A k \in 1..Len(Delivered(t)) :
                IF r[3] = NoGroup
                THEN ~(Delivered(t)[k].target_type = "user"
                          /\ Delivered(t)[k].target_id = r[2])
                ELSE ~(Delivered(t)[k].target_type = "group"
                          /\ Delivered(t)[k].target_id = r[3]
                          /\ r[2] \in Range(Delivered(t)[k].mentions))

\* C20: the message sent for an event carries the mentions of that event's
\* own subscriber entry and no other: every member of the group for a group
\* event, none for an individual's event.
C20_MentionsExact ==
    \A t \in Tasks :
       \A k \in 1..Len(sent[t]) :
          /\ sent[t][k].target_type = "group"
                => sent[t][k].mentions = sent[t][k].at_members
          /\ sent[t][k].target_type = "user" => sent[t][k].mentions = <<>>

\* C21: a cycle that wrote a changed price for an item leaves the item only
\* when a delivery was attempted for every subscriber the snapshot has for
\* it, and it then goes on with the next item; a cycle that has taken its
\* snapshot ends only after the last item, a failed delivery included.
C21_EveryoneNotified ==
    /\ [][\A t \in Tasks :
             (pc[t] \in {"send", "sleep"} /\ pc'[t] \notin {"send", "sleep"})
                => /\ Len(sent[t]) = Len(snap[t][pos[t]].subscribers)
                   /\ pc'[t] \in {"fetch", "done"}]_vars
    /\ [](\A t \in Tasks :
             (pc[t] \in {"done", "failed"} /\ snap[t] # <<>>)
                => /\ pos[t] = Len(snap[t])
                   /\ cur[t].outcome = "changed"
                         => Len(sent[t]) = Len(snap[t][pos[t]].subscribers))

\* the states in which a task waits for monitor_list_lock
WaitsForLock(t) == pc[t] \in {"snap", "write", "unsub_lock"}

\* C22: when fetches, deliveries and replies come back, a task that holds
\* the lock releases it, a task that waits for the lock gets it, and a cycle
\* that was started finishes, having gone through the items of its snapshot
\* one by one up to the last; no task holds the lock while it waits for a
\* price.
C22_LockLiveness ==
    /\ [](\A t \in Tasks : pc[t] = "fetch" => lock # t)
    /\ \A t \in Tasks : (lock = t) ~> (lock # t)
    /\ \A t \in Tasks : WaitsForLock(t) ~> ~WaitsForLock(t)
    /\ \A t \in Tasks : (pc[t] = "snap") ~> (pc[t] = "idle")
    /\ [][\A t \in Tasks :
             (InCycle(t) /\ pos'[t] # pos[t] /\ pc'[t] # "idle")
                => pos'[t] = pos[t] + 1]_vars
    /\ [](\A t \in Tasks :
             pc[t] \in {"done", "failed"} => pos[t] = Len(snap[t]))

====
